---- MODULE Spec2Model ----
(***************************************************************************)
(* Model of crypto-bigint's `Uint<LIMBS>` (src/src/uint.rs): the limb      *)
(* array, its constants, `is_odd`, `conditional_select`, hex formatting,   *)
(* the `Encoding` impl generated per width alias, the serde impls and the  *)
(* concat/split width tables.                                              *)
(*                                                                         *)
(* Representation.  A Word (the integer inside a Limb) is 32 or 64 bits    *)
(* wide, which does not fit TLC's integers, so a Word is written as its    *)
(* hexadecimal digits, most significant first: a sequence of 2*Limb::BYTES *)
(* numbers in 0..15.  A byte is a number in 0..255, a string is a sequence *)
(* of one-character strings.  A Uint is the sequence of its limbs, index 1 *)
(* being limbs[0], the least significant limb.                             *)
(***************************************************************************)
EXTENDS Integers, Sequences, FiniteSets, TLC

VARIABLES target, bits, LIMBS, a, b, choice, hex, human,
          done, selected, trace, odd, consts,
          be_bytes, le_bytes, a_from_be, a_from_le,
          wire, deserialized,
          n, shown, upper, lower,
          wide, halves

inputs == <<target, bits, LIMBS, a, b, choice, hex, human>>
coreOut == <<selected, trace, odd, consts>>
encOut == <<be_bytes, le_bytes, a_from_be, a_from_le>>
serdeOut == <<wire, deserialized>>
hexOut == <<n, shown, upper, lower>>
concatOut == <<wide, halves>>
vars == <<inputs, done, coreOut, encOut, serdeOut, hexOut, concatOut>>

\* Largest limb count whose values are enumerated limb by limb.
MaxLimbs == 2

(***************************************************************************)
(* Limb: the machine word (limb.rs), modelled from the specification's     *)
(* sections 3 and 4.1.                                                     *)
(***************************************************************************)
Targets == {32, 64}

LimbBits(t) == t

LimbBytes(t) == LimbBits(t) \div 8

Nibbles(t) == 2 * LimbBytes(t)

LimbZERO(t) == [k \in 1..Nibbles(t) |-> 0]

LimbONE(t) == [k \in 1..Nibbles(t) |-> IF k = Nibbles(t) THEN 1 ELSE 0]

LimbMAX(t) == [k \in 1..Nibbles(t) |-> 15]

\* `n as Word`: zero-extension of a u8 to a Word.
WordFromU8(t, v) ==
    [k \in 1..Nibbles(t) |->
        IF k = Nibbles(t) THEN v % 16
        ELSE IF k = Nibbles(t) - 1 THEN v \div 16
        ELSE 0]

\* Limb::is_odd: the lowest bit of the word, as a Choice (0 or 1).
LimbIsOdd(w) == w[Len(w)] % 2

Bit(x, k) == (x \div (2 ^ k)) % 2

NibbleXor(x, y) ==
    ((Bit(x, 0) + Bit(y, 0)) % 2) + 2 * ((Bit(x, 1) + Bit(y, 1)) % 2)
    + 4 * ((Bit(x, 2) + Bit(y, 2)) % 2) + 8 * ((Bit(x, 3) + Bit(y, 3)) % 2)

NibbleAnd(x, y) ==
    (Bit(x, 0) * Bit(y, 0)) + 2 * (Bit(x, 1) * Bit(y, 1))
    + 4 * (Bit(x, 2) * Bit(y, 2)) + 8 * (Bit(x, 3) * Bit(y, 3))

\* Limb::conditional_select: mask = -(choice) as Word; a ^ (mask & (a ^ b)).
LimbConditionalSelect(x, y, c) ==
    LET mask == IF c = 1 THEN 15 ELSE 0
    IN [k \in 1..Len(x) |-> NibbleXor(x[k], NibbleAnd(mask, NibbleXor(x[k], y[k])))]

(***************************************************************************)
(* Input values.                                                           *)
(***************************************************************************)
\* A word with a leading zero nibble, pairwise distinct bytes and an even
\* value: 0x0EF01234 and 0x0EF0123456789ABC.
PatternWord(t) == [k \in 1..Nibbles(t) |-> IF k = 1 THEN 0 ELSE (12 + k) % 16]

SampleWords(t) == {LimbZERO(t), LimbONE(t), LimbMAX(t), PatternWord(t)}

RECURSIVE Tuples(_, _)
Tuples(S, len) ==
    IF len = 0 THEN {<<>>}
    ELSE {Append(s, e) : s \in Tuples(S, len - 1), e \in S}

SampleByIndex(t, i) ==
    CASE i % 4 = 0 -> PatternWord(t)
      [] i % 4 = 1 -> LimbONE(t)
      [] i % 4 = 2 -> LimbMAX(t)
      [] OTHER -> LimbZERO(t)

\* Values of a Uint with L limbs: every combination of the sample words up
\* to MaxLimbs limbs, and four structured values for the larger widths.
SampleUints(t, L) ==
    IF L <= MaxLimbs THEN Tuples(SampleWords(t), L)
    ELSE { [i \in 1..L |-> LimbZERO(t)],
           [i \in 1..L |-> IF i = 1 THEN LimbONE(t) ELSE LimbZERO(t)],
           [i \in 1..L |-> LimbMAX(t)],
           [i \in 1..L |-> SampleByIndex(t, i)] }

(***************************************************************************)
(* Uint<LIMBS>: constants.                                                 *)
(***************************************************************************)
\* Uint::from_u8 (from.rs, modelled from the specification: "from a single
\* small value (zero-extended)").
from_u8(t, L, v) == [i \in 1..L |-> IF i = 1 THEN WordFromU8(t, v) ELSE LimbZERO(t)]

ZERO(t, L) == from_u8(t, L, 0)

ONE(t, L) == from_u8(t, L, 1)

\* Variant of MAX that saturates only the lowest limb.
MAX_mut(t, L) == [i \in 1..L |-> IF i = 1 THEN LimbMAX(t) ELSE LimbZERO(t)]

MAX(t, L) == [i \in 1..L |-> LimbMAX(t)]

BITS(t, L) == L * LimbBits(t)

BYTES(t, L) == L * LimbBytes(t)

Default(t, L) == ZERO(t, L)

\* The inherent constants and the constants of the Integer, Zero and
\* Bounded impls, as one record.
Constants(t, L) ==
    [ ZERO |-> ZERO(t, L), ONE |-> ONE(t, L), MAX |-> MAX(t, L),
      BITS |-> BITS(t, L), BYTES |-> BYTES(t, L), LIMBS |-> L,
      default |-> Default(t, L),
      Integer_ONE |-> ONE(t, L), Integer_MAX |-> MAX(t, L),
      Integer_BITS |-> BITS(t, L), Integer_BYTES |-> BYTES(t, L),
      Integer_LIMBS |-> L,
      Zero_ZERO |-> ZERO(t, L),
      Bounded_BITS |-> BITS(t, L), Bounded_BYTES |-> BYTES(t, L) ]

NoConstants ==
    [ ZERO |-> <<>>, ONE |-> <<>>, MAX |-> <<>>,
      BITS |-> 0, BYTES |-> 0, LIMBS |-> 0,
      default |-> <<>>,
      Integer_ONE |-> <<>>, Integer_MAX |-> <<>>,
      Integer_BITS |-> 0, Integer_BYTES |-> 0,
      Integer_LIMBS |-> 0,
      Zero_ZERO |-> <<>>,
      Bounded_BITS |-> 0, Bounded_BYTES |-> 0 ]

(***************************************************************************)
(* Uint<LIMBS>: conditional_select and is_odd.                             *)
(***************************************************************************)
\* The `for i in 0..LIMBS` loop of conditional_select from position i on.
\* st.limbs is the array under construction, st.trace the limb positions
\* (0-based) on which Limb::conditional_select has been called, in order.
RECURSIVE SelectLoop(_, _, _, _, _)
SelectLoop(i, st, x, y, c) ==
    IF i >= Len(x) THEN st
    ELSE SelectLoop(i + 1,
                    [ limbs |-> [st.limbs EXCEPT ![i + 1] =
                                    LimbConditionalSelect(x[i + 1], y[i + 1], c)],
                      trace |-> Append(st.trace, i) ],
                    x, y, c)

\* Variant of the loop that skips the limb-level select where the operands'
\* limbs are equal.
RECURSIVE SelectLoopSkip(_, _, _, _, _)
SelectLoopSkip(i, st, x, y, c) ==
    IF i >= Len(x) THEN st
    ELSE IF x[i + 1] = y[i + 1]
         THEN SelectLoopSkip(i + 1,
                             [ limbs |-> [st.limbs EXCEPT ![i + 1] = x[i + 1]],
                               trace |-> st.trace ],
                             x, y, c)
         ELSE SelectLoopSkip(i + 1,
                             [ limbs |-> [st.limbs EXCEPT ![i + 1] =
                                    LimbConditionalSelect(x[i + 1], y[i + 1], c)],
                               trace |-> Append(st.trace, i) ],
                             x, y, c)

conditional_select_skip(t, x, y, c) ==
    SelectLoopSkip(0, [limbs |-> [i \in 1..Len(x) |-> LimbZERO(t)], trace |-> <<>>], x, y, c)

\* Variant with the operands exchanged.
conditional_select_swapped(t, x, y, c) ==
    SelectLoop(0, [limbs |-> [i \in 1..Len(x) |-> LimbZERO(t)], trace |-> <<>>], y, x, c)

conditional_select(t, x, y, c) ==
    SelectLoop(0, [limbs |-> [i \in 1..Len(x) |-> LimbZERO(t)], trace |-> <<>>], x, y, c)

\* Variant reading the most significant limb.
is_odd_last(x) == IF Len(x) = 0 THEN 0 ELSE LimbIsOdd(x[Len(x)])

\* self.limbs.first().map(|limb| limb.is_odd()).unwrap_or_else(|| Choice::from(0))
is_odd(x) == IF Len(x) = 0 THEN 0 ELSE LimbIsOdd(x[1])

(***************************************************************************)
(* The represented integer: sum of limb[i] * BASE^i, written as its        *)
(* hexadecimal digits, most significant first.                             *)
(***************************************************************************)
ValueDigits(x) ==
    IF Len(x) = 0 THEN <<>>
    ELSE LET N == Len(x[1])
         IN [k \in 1..(Len(x) * N) |-> x[Len(x) - ((k - 1) \div N)][((k - 1) % N) + 1]]

\* The represented integer modulo m, by Horner's rule over its digits.
ValueMod(x, m) ==
    LET d == ValueDigits(x)
        H[k \in 0..Len(d)] == IF k = 0 THEN 0 ELSE (H[k - 1] * 16 + d[k]) % m
    IN H[Len(d)]

(***************************************************************************)
(* Hex formatting: Display, LowerHex and UpperHex.                         *)
(***************************************************************************)
UpperDigits == <<"0", "1", "2", "3", "4", "5", "6", "7",
                 "8", "9", "A", "B", "C", "D", "E", "F">>

LowerDigits == <<"0", "1", "2", "3", "4", "5", "6", "7",
                 "8", "9", "a", "b", "c", "d", "e", "f">>

RECURSIVE StripLeadingZeros(_)
StripLeadingZeros(w) ==
    IF Len(w) > 1 /\ w[1] = 0 THEN StripLeadingZeros(Tail(w)) ELSE w

PadLeft(s, width, c) ==
    IF Len(s) >= width THEN s
    ELSE [i \in 1..width |-> IF i <= width - Len(s) THEN c ELSE s[i - (width - Len(s))]]

\* Limb's hex formatting, "{:0width$X}" with width = Limb::BYTES * 2: the
\* digits of the word without leading zeros, left-padded with '0'.
LimbHexFmt(w, digits) ==
    LET sig == StripLeadingZeros(w)
    IN PadLeft([i \in 1..Len(sig) |-> digits[sig[i] + 1]], Len(w), "0")

\* Variant without .rev(): least significant limb first.
UpperHexFmt_norev(x) ==
    LET F[k \in 0..Len(x)] ==
            IF k = 0 THEN <<>> ELSE F[k - 1] \o LimbHexFmt(x[k], UpperDigits)
    IN F[Len(x)]

\* for limb in self.limbs.iter().rev() { fmt::UpperHex::fmt(limb, f)?; }
UpperHexFmt(x) ==
    LET F[k \in 0..Len(x)] ==
            IF k = 0 THEN <<>>
            ELSE F[k - 1] \o LimbHexFmt(x[Len(x) + 1 - k], UpperDigits)
    IN F[Len(x)]

LowerHexFmt(x) ==
    LET F[k \in 0..Len(x)] ==
            IF k = 0 THEN <<>>
            ELSE F[k - 1] \o LimbHexFmt(x[Len(x) + 1 - k], LowerDigits)
    IN F[Len(x)]

DisplayFmt(x) == UpperHexFmt(x)

\* Value of one hex character, upper or lower case.
DecodeHexChar(c) ==
    CHOOSE d \in 0..15 : UpperDigits[d + 1] = c \/ LowerDigits[d + 1] = c

\* Uint::from_be_hex (encoding.rs, modelled from the specification: hex
\* text of length 2*BYTES, most significant byte first).
from_be_hex(t, L, h) ==
    [i \in 1..L |->
        [k \in 1..Nibbles(t) |-> DecodeHexChar(h[(L - i) * Nibbles(t) + k])]]

\* Upper-case hex text of one limb: all A, all 0 (a zero limb), 0CCC...
\* (leading zero nibble) and 9ABCDEF0... (pairwise distinct bytes).
SampleHexWords(t) ==
    { [k \in 1..Nibbles(t) |-> "A"],
      [k \in 1..Nibbles(t) |-> "0"],
      [k \in 1..Nibbles(t) |-> IF k = 1 THEN "0" ELSE "C"],
      [k \in 1..Nibbles(t) |-> UpperDigits[((k + 8) % 16) + 1]] }

RECURSIVE Flatten(_)
Flatten(ss) == IF Len(ss) = 0 THEN <<>> ELSE Head(ss) \o Flatten(Tail(ss))

\* Upper-case hex strings of length 2*BYTES.
SampleHex(t, L) == {Flatten(ws) : ws \in Tuples(SampleHexWords(t), L)}

(***************************************************************************)
(* Width aliases and the Encoding impl of each alias.                      *)
(***************************************************************************)
CommonAliases ==
    {64, 128, 192, 256, 320, 384, 448, 512, 576, 640, 768, 896, 1024, 1280,
     1536, 1792, 2048, 3072, 3584, 4096, 6144, 8192}

NarrowOnlyAliases == {224, 544}

\* Variant without the cfg(target_pointer_width = "32") gate.
Aliases_ungated(t) == CommonAliases \cup NarrowOnlyAliases

Aliases(t) == IF t = 32 THEN CommonAliases \cup NarrowOnlyAliases ELSE CommonAliases

\* nlimbs!($bits)
nlimbs(t, w) == w \div LimbBits(t)

\* The length of Encoding::Repr, [u8; $bits / 8].
ReprLen(w) == w \div 8

\* Word::to_be_bytes and Word::to_le_bytes.
WordToBeBytes(w) == [j \in 1..(Len(w) \div 2) |-> 16 * w[2 * j - 1] + w[2 * j]]

WordToLeBytes(w) ==
    [j \in 1..(Len(w) \div 2) |->
        LET k == (Len(w) \div 2) + 1 - j IN 16 * w[2 * k - 1] + w[2 * k]]

\* Word::from_be_bytes and Word::from_le_bytes.
WordFromBeBytes(buf) ==
    [k \in 1..(2 * Len(buf)) |->
        IF k % 2 = 1 THEN buf[(k + 1) \div 2] \div 16 ELSE buf[k \div 2] % 16]

WordFromLeBytes(buf) ==
    [k \in 1..(2 * Len(buf)) |->
        LET j == Len(buf) + 1 - ((k + 1) \div 2)
        IN IF k % 2 = 1 THEN buf[j] \div 16 ELSE buf[j] % 16]

\* Uint::write_be_bytes / write_le_bytes (encoding.rs, modelled from the
\* specification): the limbs' bytes written into `out`, most significant
\* limb first for big-endian and least significant limb first for
\* little-endian.
write_be_bytes(t, x, out) ==
    [i \in 1..Len(out) |->
        IF i <= Len(x) * LimbBytes(t)
        THEN WordToBeBytes(x[Len(x) - ((i - 1) \div LimbBytes(t))])[((i - 1) % LimbBytes(t)) + 1]
        ELSE out[i]]

write_le_bytes(t, x, out) ==
    [i \in 1..Len(out) |->
        IF i <= Len(x) * LimbBytes(t)
        THEN WordToLeBytes(x[((i - 1) \div LimbBytes(t)) + 1])[((i - 1) % LimbBytes(t)) + 1]
        ELSE out[i]]

\* Uint::from_be_slice / from_le_slice (encoding.rs, modelled from the
\* specification).
from_be_slice(t, L, bytes) ==
    [i \in 1..L |->
        WordFromBeBytes(SubSeq(bytes, (L - i) * LimbBytes(t) + 1, (L - i + 1) * LimbBytes(t)))]

from_le_slice(t, L, bytes) ==
    [i \in 1..L |->
        WordFromLeBytes(SubSeq(bytes, (i - 1) * LimbBytes(t) + 1, i * LimbBytes(t)))]

\* Variant decoding with from_le_slice.
from_be_bytes_le(t, L, bytes) == from_le_slice(t, L, bytes)

from_be_bytes(t, L, bytes) == from_be_slice(t, L, bytes)

from_le_bytes(t, L, bytes) == from_le_slice(t, L, bytes)

to_be_bytes(t, w, x) == write_be_bytes(t, x, [i \in 1..ReprLen(w) |-> 0])

\* Variant encoding with write_be_bytes.
to_le_bytes_be(t, w, x) == write_be_bytes(t, x, [i \in 1..ReprLen(w) |-> 0])

to_le_bytes(t, w, x) == write_le_bytes(t, x, [i \in 1..ReprLen(w) |-> 0])

(***************************************************************************)
(* Serialize and Deserialize.  The serializer either is human readable,    *)
(* and the value travels as lower-case hex text, or is not, and it travels *)
(* as raw bytes.                                                           *)
(***************************************************************************)
\* serdect::array::serialize_hex_lower_or_bin
serialize_hex_lower_or_bin(bytes, readable) ==
    IF readable
    THEN [ text |-> TRUE,
           data |-> [k \in 1..(2 * Len(bytes)) |->
                        IF k % 2 = 1
                        THEN LowerDigits[(bytes[(k + 1) \div 2] \div 16) + 1]
                        ELSE LowerDigits[(bytes[k \div 2] % 16) + 1]] ]
    ELSE [ text |-> FALSE, data |-> bytes ]

\* serdect::array::deserialize_hex_or_bin: fills `buffer` exactly, or fails.
deserialize_hex_or_bin(buffer, w) ==
    IF w.text
    THEN IF Len(w.data) # 2 * Len(buffer)
         THEN [ok |-> FALSE, buffer |-> buffer]
         ELSE [ok |-> TRUE,
               buffer |-> [j \in 1..Len(buffer) |->
                              16 * DecodeHexChar(w.data[2 * j - 1])
                              + DecodeHexChar(w.data[2 * j])]]
    ELSE IF Len(w.data) # Len(buffer)
         THEN [ok |-> FALSE, buffer |-> buffer]
         ELSE [ok |-> TRUE, buffer |-> w.data]

\* Variant serializing the big-endian encoding.
serialize_be(t, w, x, readable) ==
    serialize_hex_lower_or_bin(to_be_bytes(t, w, x), readable)

serialize(t, w, x, readable) ==
    serialize_hex_lower_or_bin(to_le_bytes(t, w, x), readable)

deserialize(t, w, L, msg) ==
    LET r == deserialize_hex_or_bin(to_le_bytes(t, w, ZERO(t, L)), msg)
    IN IF r.ok THEN [ok |-> TRUE, value |-> from_le_bytes(t, L, r.buffer)]
       ELSE [ok |-> FALSE, value |-> <<>>]

NoWire == [text |-> FALSE, data |-> <<>>]

(***************************************************************************)
(* Concat and Split.                                                       *)
(***************************************************************************)
\* Variant of the concat table with U576, whose double has no alias.
ConcatWidths_extra ==
    {64, 128, 192, 256, 320, 384, 448, 512, 576, 640, 768, 896, 1024, 1536,
     1792, 2048, 3072, 4096}

ConcatWidths ==
    {64, 128, 192, 256, 320, 384, 448, 512, 640, 768, 896, 1024, 1536,
     1792, 2048, 3072, 4096}

SplitWidths ==
    {128, 256, 384, 512, 640, 768, 896, 1024, 1280, 1536, 1792, 2048, 3072,
     3584, 4096, 6144, 8192}

\* impl_concat! (concat.rs, modelled from the specification, section 4.8):
\* the low operand's limbs followed by the high operand's limbs.
concat(high, low) == low \o high

\* impl_split! (split.rs, modelled from the specification, section 4.8).
split(x) ==
    [ high |-> SubSeq(x, (Len(x) \div 2) + 1, Len(x)),
      low |-> SubSeq(x, 1, Len(x) \div 2) ]

NoHalves == [high |-> <<>>, low |-> <<>>]

(***************************************************************************)
(* The generic operations of Uint<LIMBS>, on either target.                *)
(***************************************************************************)
NoOutputs ==
    /\ done = {}
    /\ selected = <<>> /\ trace = <<>> /\ odd = 0 /\ consts = NoConstants
    /\ be_bytes = <<>> /\ le_bytes = <<>> /\ a_from_be = <<>> /\ a_from_le = <<>>
    /\ wire = NoWire /\ deserialized = <<>>
    /\ n = <<>> /\ shown = <<>> /\ upper = <<>> /\ lower = <<>>
    /\ wide = <<>> /\ halves = NoHalves

Init ==
    /\ target \in Targets
    /\ bits = 0
    /\ LIMBS \in 0..MaxLimbs
    /\ a \in SampleUints(target, LIMBS)
    /\ b = <<>>
    /\ choice = 0
    /\ hex = <<>>
    /\ human = FALSE
    /\ NoOutputs

IsOdd ==
    /\ odd' = is_odd(a)
    /\ done' = done \cup {"is_odd"}
    /\ UNCHANGED <<inputs, selected, trace, consts, encOut, serdeOut, hexOut, concatOut>>

LoadConstants ==
    /\ LIMBS >= 1
    /\ consts' = Constants(target, LIMBS)
    /\ done' = done \cup {"constants"}
    /\ UNCHANGED <<inputs, selected, trace, odd, encOut, serdeOut, hexOut, concatOut>>

Next == IsOdd \/ LoadConstants

Spec == Init /\ [][Next]_vars

(***************************************************************************)
(* conditional_select on two operands of the same limb count.              *)
(***************************************************************************)
InitSelect ==
    /\ target \in Targets
    /\ bits = 0
    /\ LIMBS \in 0..MaxLimbs
    /\ a \in SampleUints(target, LIMBS)
    /\ b \in SampleUints(target, LIMBS)
    /\ choice \in {0, 1}
    /\ hex = <<>>
    /\ human = FALSE
    /\ NoOutputs

ConditionalSelect ==
    /\ LET r == conditional_select(target, a, b, choice)
       IN /\ selected' = r.limbs
          /\ trace' = r.trace
    /\ done' = done \cup {"conditional_select"}
    /\ UNCHANGED <<inputs, odd, consts, encOut, serdeOut, hexOut, concatOut>>

NextSelect == ConditionalSelect

SpecSelect == InitSelect /\ [][NextSelect]_vars

(***************************************************************************)
(* The Encoding impl of a width alias.                                     *)
(***************************************************************************)
InitEncoding ==
    /\ target \in Targets
    /\ bits \in Aliases(target)
    /\ LIMBS = nlimbs(target, bits)
    /\ a \in SampleUints(target, LIMBS)
    /\ b = <<>>
    /\ choice = 0
    /\ hex = <<>>
    /\ human = FALSE
    /\ NoOutputs

ToBeBytes ==
    /\ be_bytes' = to_be_bytes(target, bits, a)
    /\ done' = done \cup {"to_be_bytes"}
    /\ UNCHANGED <<inputs, coreOut, le_bytes, a_from_be, a_from_le, serdeOut, hexOut, concatOut>>

ToLeBytes ==
    /\ le_bytes' = to_le_bytes(target, bits, a)
    /\ done' = done \cup {"to_le_bytes"}
    /\ UNCHANGED <<inputs, coreOut, be_bytes, a_from_be, a_from_le, serdeOut, hexOut, concatOut>>

\* from_be_slice asserts that the slice is BYTES long.
FromBeBytes ==
    /\ "to_be_bytes" \in done
    /\ Len(be_bytes) = BYTES(target, LIMBS)
    /\ a_from_be' = from_be_bytes(target, LIMBS, be_bytes)
    /\ done' = done \cup {"from_be_bytes"}
    /\ UNCHANGED <<inputs, coreOut, be_bytes, le_bytes, a_from_le, serdeOut, hexOut, concatOut>>

FromLeBytes ==
    /\ "to_le_bytes" \in done
    /\ Len(le_bytes) = BYTES(target, LIMBS)
    /\ a_from_le' = from_le_bytes(target, LIMBS, le_bytes)
    /\ done' = done \cup {"from_le_bytes"}
    /\ UNCHANGED <<inputs, coreOut, be_bytes, le_bytes, a_from_be, serdeOut, hexOut, concatOut>>

NextEncoding == ToBeBytes \/ ToLeBytes \/ FromBeBytes \/ FromLeBytes

SpecEncoding == InitEncoding /\ [][NextEncoding]_vars

(***************************************************************************)
(* Serialize and Deserialize of a width alias.                             *)
(***************************************************************************)
InitSerde ==
    /\ target \in Targets
    /\ bits \in Aliases(target)
    /\ LIMBS = nlimbs(target, bits)
    /\ a \in SampleUints(target, LIMBS)
    /\ b = <<>>
    /\ choice = 0
    /\ hex = <<>>
    /\ human \in BOOLEAN
    /\ NoOutputs

Serialize ==
    /\ wire' = serialize(target, bits, a, human)
    /\ done' = done \cup {"serialize"}
    /\ UNCHANGED <<inputs, coreOut, encOut, deserialized, hexOut, concatOut>>

Deserialize ==
    /\ "serialize" \in done
    /\ LET r == deserialize(target, bits, LIMBS, wire)
       IN /\ deserialized' = r.value
          /\ done' = (done \ {"deserialize_ok", "deserialize_err"})
                        \cup {IF r.ok THEN "deserialize_ok" ELSE "deserialize_err"}
    /\ UNCHANGED <<inputs, coreOut, encOut, wire, hexOut, concatOut>>

NextSerde == Serialize \/ Deserialize

SpecSerde == InitSerde /\ [][NextSerde]_vars

(***************************************************************************)
(* Parsing big-endian hex and formatting it back.                          *)
(***************************************************************************)
InitHex ==
    /\ target \in Targets
    /\ bits = 0
    /\ LIMBS \in 0..MaxLimbs
    /\ a = <<>>
    /\ b = <<>>
    /\ choice = 0
    /\ hex \in SampleHex(target, LIMBS)
    /\ human = FALSE
    /\ NoOutputs

\* from_be_hex asserts that the string is 2*BYTES long.
FromBeHex ==
    /\ Len(hex) = 2 * BYTES(target, LIMBS)
    /\ n' = from_be_hex(target, LIMBS, hex)
    /\ done' = done \cup {"from_be_hex"}
    /\ UNCHANGED <<inputs, coreOut, encOut, serdeOut, shown, upper, lower, concatOut>>

\* n.to_string(), through Display
to_string ==
    /\ "from_be_hex" \in done
    /\ shown' = DisplayFmt(n)
    /\ done' = done \cup {"to_string"}
    /\ UNCHANGED <<inputs, coreOut, encOut, serdeOut, n, upper, lower, concatOut>>

FormatUpperHex ==
    /\ "from_be_hex" \in done
    /\ upper' = UpperHexFmt(n)
    /\ done' = done \cup {"upper_hex"}
    /\ UNCHANGED <<inputs, coreOut, encOut, serdeOut, n, shown, lower, concatOut>>

FormatLowerHex ==
    /\ "from_be_hex" \in done
    /\ lower' = LowerHexFmt(n)
    /\ done' = done \cup {"lower_hex"}
    /\ UNCHANGED <<inputs, coreOut, encOut, serdeOut, n, shown, upper, concatOut>>

NextHex == FromBeHex \/ to_string \/ FormatUpperHex \/ FormatLowerHex

SpecHex == InitHex /\ [][NextHex]_vars

(***************************************************************************)
(* Concat of two values of a width in the concat table, and Split of the   *)
(* result.  a is the high operand, b the low operand.                      *)
(***************************************************************************)
InitConcat ==
    /\ target \in Targets
    /\ bits \in ConcatWidths
    /\ LIMBS = nlimbs(target, bits)
    /\ a \in SampleUints(target, LIMBS)
    /\ b \in SampleUints(target, LIMBS)
    /\ choice = 0
    /\ hex = <<>>
    /\ human = FALSE
    /\ NoOutputs

Concat ==
    /\ wide' = concat(a, b)
    /\ done' = done \cup {"concat"}
    /\ UNCHANGED <<inputs, coreOut, encOut, serdeOut, hexOut, halves>>

\* Split exists only for the widths of the split table.
Split ==
    /\ "concat" \in done
    /\ (2 * bits) \in SplitWidths
    /\ halves' = split(wide)
    /\ done' = done \cup {"split"}
    /\ UNCHANGED <<inputs, coreOut, encOut, serdeOut, hexOut, wide>>

NextConcat == Concat \/ Split

SpecConcat == InitConcat /\ [][NextConcat]_vars

(***************************************************************************)
(* Properties.                                                             *)
(***************************************************************************)
\* C1: decoding the big-endian encoding of x with from_be_bytes gives x,
\* decoding the little-endian encoding of x with from_le_bytes gives x, and
\* so the two decoded values are equal.
C1_BytesRoundTrip ==
    /\ "from_be_bytes" \in done => a_from_be = a
    /\ "from_le_bytes" \in done => a_from_le = a
    /\ {"from_be_bytes", "from_le_bytes"} \subseteq done => a_from_be = a_from_le

C1_Witness ==
    /\ {"from_be_bytes", "from_le_bytes"} \subseteq done
    /\ target = 64 /\ bits = 128
    /\ a = <<PatternWord(64), LimbONE(64)>>
    /\ a_from_be = a /\ a_from_le = a

\* C2: the little-endian encoding is the byte reversal of the big-endian
\* encoding: to_le_bytes(x)[i] = to_be_bytes(x)[BYTES - 1 - i] for every
\* index i in 0..BYTES-1.
C2_ByteReversal ==
    {"to_be_bytes", "to_le_bytes"} \subseteq done =>
        /\ Len(be_bytes) = BYTES(target, LIMBS)
        /\ Len(le_bytes) = BYTES(target, LIMBS)
        /\ \A i \in 0..(BYTES(target, LIMBS) - 1) :
              le_bytes[i + 1] = be_bytes[(BYTES(target, LIMBS) - 1 - i) + 1]

C2_Witness ==
    /\ {"to_be_bytes", "to_le_bytes"} \subseteq done
    /\ target = 32 /\ bits = 64
    /\ a = <<PatternWord(32), LimbONE(32)>>
    /\ be_bytes = <<0, 0, 0, 1, 14, 240, 18, 52>>
    /\ le_bytes = <<52, 18, 240, 14, 1, 0, 0, 0>>

\* C3: conditional_select(a, b, choice) equals a in every limb when choice
\* is 0 and equals b in every limb when choice is 1.
C3_SelectResult ==
    "conditional_select" \in done =>
        /\ Len(selected) = LIMBS
        /\ choice = 0 => \A i \in 1..LIMBS : selected[i] = a[i]
        /\ choice = 1 => \A i \in 1..LIMBS : selected[i] = b[i]

C3_Witness ==
    /\ "conditional_select" \in done
    /\ LIMBS = 2 /\ choice = 1
    /\ a[1] # b[1] /\ a[2] # b[2]
    /\ selected = b

\* C4: Display formatting equals UpperHex formatting, and formatting the
\* value parsed from an upper-case hex string h of length 2*BYTES gives h
\* back, also when a limb is zero or has leading zero nibbles.
C4_HexRoundTrip ==
    /\ "to_string" \in done => shown = hex
    /\ {"to_string", "upper_hex"} \subseteq done => shown = upper

C4_Witness ==
    /\ {"to_string", "upper_hex"} \subseteq done
    /\ target = 32 /\ LIMBS = 2
    /\ hex = <<"0", "C", "C", "C", "C", "C", "C", "C",
               "0", "0", "0", "0", "0", "0", "0", "0">>
    /\ shown = hex

\* C5: for every width W of the concat table, concat(high, low) has 2W
\* bits, its low W bits are low and its high W bits are high, the 2W-bit
\* type is in the split table, and split(concat(high, low)) = (high, low).
C5_ConcatSplit ==
    /\ "concat" \in done =>
          /\ (2 * bits) \in SplitWidths
          /\ Len(wide) = nlimbs(target, 2 * bits)
          /\ BITS(target, Len(wide)) = 2 * bits
          /\ LET d == ValueDigits(wide)
                 w == bits \div 4
             IN /\ Len(d) = 2 * w
                /\ SubSeq(d, w + 1, 2 * w) = ValueDigits(b)
                /\ SubSeq(d, 1, w) = ValueDigits(a)
    /\ "split" \in done => halves = [high |-> a, low |-> b]

C5_Witness ==
    /\ "split" \in done
    /\ target = 64 /\ bits = 128
    /\ a = <<PatternWord(64), LimbONE(64)>>
    /\ b = <<LimbMAX(64), LimbZERO(64)>>
    /\ wide = <<LimbMAX(64), LimbZERO(64), PatternWord(64), LimbONE(64)>>
    /\ halves = [high |-> a, low |-> b]

\* C6: serializing x and deserializing the result succeeds and gives x.
C6_SerdeRoundTrip ==
    /\ "deserialize_err" \notin done
    /\ "deserialize_ok" \in done => deserialized = a

C6_Witness ==
    /\ "deserialize_ok" \in done
    /\ target = 32 /\ bits = 64 /\ human
    /\ a = <<PatternWord(32), LimbONE(32)>>
    /\ wire.data = <<"3", "4", "1", "2", "f", "0", "0", "e",
                     "0", "1", "0", "0", "0", "0", "0", "0">>
    /\ deserialized = a

\* C7: with at least one limb, is_odd(x) is true exactly when limbs[0] is
\* odd, which is exactly when the represented integer is odd, whatever the
\* higher limbs are; with no limbs is_odd is false.
C7_IsOdd ==
    "is_odd" \in done =>
        /\ LIMBS >= 1 => /\ odd = a[1][Nibbles(target)] % 2
                         /\ odd = ValueMod(a, 2)
        /\ LIMBS = 0 => odd = 0

C7_Witness ==
    /\ "is_odd" \in done
    /\ LIMBS = 2
    /\ a = <<LimbONE(target), PatternWord(target)>>
    /\ odd = 1

\* C8: for L >= 1, ZERO has all limbs zero and is the default value, ONE has
\* limb 0 equal to 1 and the other limbs zero, MAX has every limb equal to
\* Limb::MAX (the value 2^BITS - 1), BITS = L * Limb::BITS,
\* BYTES = L * Limb::BYTES = BITS / 8, LIMBS = L, and the constants of the
\* Integer, Zero and Bounded traits equal the inherent ones.
C8_Constants ==
    "constants" \in done =>
        /\ LIMBS >= 1
        /\ Len(consts.ZERO) = LIMBS /\ Len(consts.ONE) = LIMBS /\ Len(consts.MAX) = LIMBS
        /\ \A i \in 1..LIMBS : \A k \in 1..Nibbles(target) : consts.ZERO[i][k] = 0
        /\ consts.default = consts.ZERO
        /\ \A k \in 1..Nibbles(target) :
              consts.ONE[1][k] = (IF k = Nibbles(target) THEN 1 ELSE 0)
        /\ \A i \in 2..LIMBS : \A k \in 1..Nibbles(target) : consts.ONE[i][k] = 0
        /\ \A i \in 1..LIMBS : consts.MAX[i] = LimbMAX(target)
        /\ LET d == ValueDigits(consts.MAX)
           IN /\ 4 * Len(d) = consts.BITS
              /\ \A k \in 1..Len(d) : d[k] = 15
        /\ consts.BITS = LIMBS * LimbBits(target)
        /\ consts.BYTES = LIMBS * LimbBytes(target)
        /\ 8 * consts.BYTES = consts.BITS
        /\ consts.LIMBS = LIMBS
        /\ consts.Integer_ONE = consts.ONE /\ consts.Integer_MAX = consts.MAX
        /\ consts.Integer_BITS = consts.BITS /\ consts.Integer_BYTES = consts.BYTES
        /\ consts.Integer_LIMBS = consts.LIMBS
        /\ consts.Zero_ZERO = consts.ZERO
        /\ consts.Bounded_BITS = consts.BITS /\ consts.Bounded_BYTES = consts.BYTES

C8_Witness ==
    /\ "constants" \in done
    /\ target = 32 /\ LIMBS = 2
    /\ consts.BITS = 64 /\ consts.BYTES = 8
    /\ consts.ONE = <<LimbONE(32), LimbZERO(32)>>
    /\ consts.MAX = <<LimbMAX(32), LimbMAX(32)>>

\* C9: there are 22 aliases with 64-bit limbs and 24 with 32-bit limbs, and
\* for each of them the nominal width is a multiple of the limb width, so
\* that the Encoding representation length ($bits / 8) equals BYTES and
\* BITS equals the nominal width.
C9_AliasWidths ==
    /\ Cardinality(Aliases(target)) = (IF target = 32 THEN 24 ELSE 22)
    /\ bits \in Aliases(target)
    /\ bits % LimbBits(target) = 0
    /\ ReprLen(bits) = BYTES(target, LIMBS)
    /\ BITS(target, LIMBS) = bits
    /\ "to_be_bytes" \in done => Len(be_bytes) = BYTES(target, LIMBS)
    /\ "to_le_bytes" \in done => Len(le_bytes) = BYTES(target, LIMBS)

C9_Witness ==
    /\ target = 32 /\ bits = 544 /\ LIMBS = 17
    /\ "to_be_bytes" \in done
    /\ Len(be_bytes) = 68

\* C10: conditional_select calls the limb-level select exactly LIMBS times,
\* on the positions 0, 1, ..., LIMBS-1 in this order, whatever a, b and
\* choice are.
C10_SelectTrace ==
    "conditional_select" \in done => trace = [k \in 1..LIMBS |-> k - 1]

C10_Witness ==
    /\ "conditional_select" \in done
    /\ LIMBS = 2
    /\ a[1] = b[1] /\ a[2] # b[2]
    /\ trace = <<0, 1>>

====
